---- MODULE Spec2Model ----
(***************************************************************************)
(* SeeDot experiment driver (tools/SeeDot/SeeDot-dev.py, class MainDriver)  *)
(* and the build/execute runner (tools/SeeDot/seedot/predictor.py, class    *)
(* Predictor), as a state machine.                                          *)
(*                                                                          *)
(* The driver parses its arguments (parseArgs), resolves the toolchain on   *)
(* a Windows host (checkMSBuildPath), then walks the Cartesian product of   *)
(* the configuration axes (runMainDriver); every point is handed to         *)
(* main.Main(...).run(), which ends in one Predictor.run(): build, execute, *)
(* read the stats file.  Child processes are modelled by a start step and   *)
(* an exit step; the exit status, the stats file the artifact leaves and    *)
(* the filesystem the driver starts in are the environment's choices.       *)
(***************************************************************************)
EXTENDS Naturals, Integers, Sequences, FiniteSets, TLC

(***************************************************************************)
(* Bounds of the model.                                                     *)
(***************************************************************************)
\* Longest selection (list of values) of one configuration axis.
MaxAxisLen == 2
\* Largest number of sweep points of one selection.
MaxPoints == 4
\* Largest number of characters of a stats file, over all its lines.
MaxFileChars == 3
\* Largest number of lines of a stats file.
MaxLines == 2
\* Number of entries of config.msbuildPathOptions.
MaxCandidates == 2

(***************************************************************************)
(* Values of the program.                                                   *)
(***************************************************************************)
\* Python's None where a path is expected (args.tempdir, args.outdir).
NoPath == <<>>

\* Python's None where a number is expected (the accuracy Predictor.run returns).
NoValue == 0 - 1

\* The word length the sweep fixes for every point: product(..., [16]).
BaseWordLength == 16

Algos == {"bonsai", "protonn"}
Encodings == {"fixed", "float"}
Datasets == {"cifar-binary"}
Targets == {"x86", "arduino", "m3"}
Metrics == {"acc"}

\* Values config.wordLength can hold: the three the driver knows and one it
\* does not.
WordLengths == {8, BaseWordLength, 32, 64}

\* Exit statuses of a child process: success, the status the code tests for,
\* and another failure status (make exits with 2 on a failed recipe).
ExitStatuses == {0, 1, 2}

(***************************************************************************)
(* Sequences.                                                               *)
(***************************************************************************)
NoDup(s) == \A i, j \in DOMAIN s : s[i] = s[j] => i = j

\* The non-empty duplicate-free lists over S of at most n values.
Selections(S, n) ==
    {s \in UNION {[1..k -> S] : k \in 1..n} : NoDup(s)}

IsPrefix(p, q) == Len(p) =< Len(q) /\ SubSeq(q, 1, Len(p)) = p

RECURSIVE Concat(_)
Concat(ss) == IF ss = <<>> THEN <<>> ELSE Head(ss) \o Concat(Tail(ss))

(***************************************************************************)
(* itertools.product: the first list varies slowest, the last fastest.      *)
(***************************************************************************)
\* The element of a one-element set: Value({e}) is e, computed once however
\* often the operator it is handed to uses it.
Value(S) == CHOOSE x \in S : TRUE

productLoop(first, rest) ==
    Value({Concat(rows) :
              rows \in {[i \in DOMAIN first |->
                            [j \in DOMAIN rest |-> <<first[i]>> \o rest[j]]]}})

RECURSIVE product(_)
product(lists) ==
    IF lists = <<>> THEN << <<>> >>
    ELSE Value({productLoop(first, rest) :
                   first \in {Head(lists)}, rest \in {product(Tail(lists))}})

(***************************************************************************)
(* The filesystem: the directories and the files that exist, each a path    *)
(* (a sequence of names).  os.path.join is concatenation of paths.          *)
(***************************************************************************)
isdir(f, p) == p \in f.dirs

exists(f, p) == p \in f.dirs \/ p \in f.files

\* shutil.rmtree(p): p and everything below it is gone.
rmtree(f, p) ==
    [dirs |-> {d \in f.dirs : ~IsPrefix(p, d)},
     files |-> {x \in f.files : ~IsPrefix(p, x)}]

\* os.makedirs(p) / os.makedirs(p, exist_ok=True): p and its parents exist.
makedirs(f, p) ==
    [f EXCEPT !.dirs = @ \cup {SubSeq(p, 1, k) : k \in 1..Len(p)}]

\* open(p, 'w'): the file exists afterwards (created or truncated).
openForWrite(f, p) == [f EXCEPT !.files = @ \cup {p}]

(***************************************************************************)
(* Stats files.  A file is absent or holds a list of lines; a line is a     *)
(* list of characters.  " " stands for any whitespace (the newline          *)
(* that ends a line included), "9" for a digit, "x" for any character that  *)
(* cannot occur in a number.                                                *)
(***************************************************************************)
Whitespace == {" "}
Digits == {"9"}
Chars == Whitespace \cup Digits \cup {".", "x"}

LinesUpTo(n) == UNION {[1..k -> Chars] : k \in 0..n}

\* The files of exactly k lines holding at most n characters in all.
RECURSIVE FilesOf(_, _)
FilesOf(k, n) ==
    IF k = 0 THEN {<<>>}
    ELSE UNION {{<<l>> \o f : f \in FilesOf(k - 1, n - Len(l))} : l \in LinesUpTo(n)}

AbsentFile == [present |-> FALSE, lines |-> <<>>]

FileOf(ls) == [present |-> TRUE, lines |-> ls]

\* The stats files an artifact of the sweep leaves: none, an empty file, a
\* file whose first line is not a number, a file whose first line is one.
StatsSamples ==
    {AbsentFile, FileOf(<<>>), FileOf(<< <<"x">> >>), FileOf(<< <<" ", "9", " ">> >>)}

StatsFiles ==
    {AbsentFile} \cup {FileOf(ls) : ls \in UNION {FilesOf(k, MaxFileChars) : k \in 0..MaxLines}}

\* str.strip(): leading and trailing whitespace removed.
RECURSIVE lstrip(_)
lstrip(s) == IF s # <<>> /\ Head(s) \in Whitespace THEN lstrip(Tail(s)) ELSE s

RECURSIVE rstrip(_)
rstrip(s) ==
    IF s # <<>> /\ s[Len(s)] \in Whitespace THEN rstrip(SubSeq(s, 1, Len(s) - 1)) ELSE s

strip(s) == rstrip(lstrip(s))

\* Numbers are fixed-point: a float v is the integer v * FloatScale.
FloatScale == 10 ^ (MaxFileChars + 1)

DigitValue(c) == 9

RECURSIVE DigitsValue(_)
DigitsValue(s) ==
    IF s = <<>> THEN 0 ELSE DigitsValue(SubSeq(s, 1, Len(s) - 1)) * 10 + DigitValue(s[Len(s)])

DotAt(s) == {i \in DOMAIN s : s[i] = "."}

\* float(s) accepts, after removing surrounding whitespace, digits with at
\* most one "." and at least one digit (signs, exponents, inf and nan are
\* outside the model's characters); anything else is a ValueError.
floatAccepts(s) ==
    LET t == strip(s)
    IN  /\ t # <<>>
        /\ \A i \in DOMAIN t : t[i] \in Digits \cup {"."}
        /\ Cardinality(DotAt(t)) =< 1
        /\ \E i \in DOMAIN t : t[i] \in Digits

floatValue(s) ==
    LET t == strip(s)
        d == IF DotAt(t) = {} THEN Len(t) + 1 ELSE CHOOSE i \in DotAt(t) : TRUE
        whole == SubSeq(t, 1, d - 1)
        frac == SubSeq(t, d + 1, Len(t))
    IN  DigitsValue(whole) * FloatScale + DigitsValue(frac) * (FloatScale \div (10 ^ Len(frac)))

\* What a call returns: a value, or an exception that leaves the call.
Returned(v) == [kind |-> "return", value |-> v, exc |-> "none"]

Raised(e) == [kind |-> "raise", value |-> NoValue, exc |-> e]

(***************************************************************************)
(* Predictor.readStatsFile: open the file, read its lines, strip each,      *)
(* return float(stats[0]).                                                  *)
(***************************************************************************)
readStatsFileDefaulting(file) ==
    IF ~file.present THEN Raised("FileNotFoundError")
    ELSE LET stats == [i \in DOMAIN file.lines |-> strip(file.lines[i])]
         IN  IF stats = <<>> THEN Returned(0)
             ELSE IF ~floatAccepts(stats[1]) THEN Raised("ValueError")
             ELSE Returned(floatValue(stats[1]))

readStatsFile(file) ==
    IF ~file.present THEN Raised("FileNotFoundError")
    ELSE LET stats == [i \in DOMAIN file.lines |-> strip(file.lines[i])]
         IN  IF stats = <<>> THEN Raised("IndexError")
             ELSE IF ~floatAccepts(stats[1]) THEN Raised("ValueError")
             ELSE Returned(floatValue(stats[1]))

(***************************************************************************)
(* MainDriver.checkMSBuildPath.  config.msbuildPathOptions is an ordered    *)
(* list; candidate i is named by its index, 0 is "not set".                 *)
(***************************************************************************)
\* The loop over the candidates: the variable is assigned at every candidate
\* that exists, and the loop runs to the end of the list.
RECURSIVE scanCandidates(_, _, _)
scanCandidates(i, existing, path) ==
    IF i > MaxCandidates THEN path
    ELSE scanCandidates(i + 1, existing, IF i \in existing THEN i ELSE path)

\* found, after the loop.
foundAlways(existing) == TRUE

found(existing) == \E i \in 1..MaxCandidates : i \in existing

(***************************************************************************)
(* MainDriver.parseArgs, the directories.                                   *)
(***************************************************************************)
DefaultTempdir == <<"temp">>

\* "Scratch directory doesn't exist" / "Output directory doesn't exist".
tempdirAssertFails(f, a) == a.tempdir # NoPath /\ ~isdir(f, a.tempdir)

outdirAssertFails(f, a) == a.outdir # NoPath /\ ~isdir(f, a.outdir)

\* config.tempdir
tempdirOf(a) == IF a.tempdir # NoPath THEN a.tempdir ELSE DefaultTempdir

\* The filesystem after the scratch directory is set up.
scratchSetupAlways(f, a) ==
    makedirs(IF exists(f, tempdirOf(a)) THEN rmtree(f, tempdirOf(a)) ELSE f, tempdirOf(a))

scratchSetup(f, a) ==
    IF a.tempdir # NoPath THEN f
    ELSE makedirs(IF exists(f, DefaultTempdir) THEN rmtree(f, DefaultTempdir) ELSE f,
                  DefaultTempdir)

\* config.outdir
outdirOf(a) ==
    IF a.outdir # NoPath THEN a.outdir
    ELSE IF a.target = <<"arduino">> THEN <<"arduinodump", "arduino">>
    ELSE IF a.target = <<"m3">> THEN <<"m3dump">>
    ELSE tempdirOf(a) \o <<"arduino">>

\* The filesystem after the output directory is set up.
outdirSetup(f, a) == IF a.outdir # NoPath THEN f ELSE makedirs(f, outdirOf(a))

(***************************************************************************)
(* MainDriver.runMainDriver, per point.                                     *)
(***************************************************************************)
\* The points of the sweep, in the order the loop visits them.
sweepPoints(a) ==
    product(<<a.algo, a.encoding, a.dataset, a.target, a.maximisingMetric,
              <<BaseWordLength>> >>)

\* The try block: the tag, or "AssertionError" (assert False).
deriveBitwidth(encoding, wl) ==
    IF encoding = "float" THEN "float"
    ELSE IF wl = 8 THEN "int8"
    ELSE IF wl = 16 THEN "int16"
    ELSE IF wl = 32 THEN "int32"
    ELSE "AssertionError"

\* The except block: assert self.args.load_sf == False.
bitwidthAssertFails(encoding, wl, load_sf) ==
    deriveBitwidth(encoding, wl) = "AssertionError" /\ load_sf

(***************************************************************************)
(* Predictor: the variant build() and execute() select, the log each        *)
(* writes, and what each makes of the exit status.                          *)
(***************************************************************************)
buildVariant(win, mgw) ==
    IF win THEN (IF mgw THEN "mingw" ELSE "windows") ELSE "linux"

\* execute() taking the mingw variant whenever Common.mingw is set.
executeVariantByFlag(win, mgw) ==
    IF mgw THEN "mingw" ELSE IF win THEN "windows" ELSE "linux"

executeVariant(win, mgw) ==
    IF win THEN (IF mgw THEN "mingw" ELSE "windows") ELSE "linux"

buildLogName(variant) == IF variant = "mingw" THEN "gccbuild.txt" ELSE "msbuild.txt"

execLogName(variant) == "exec.txt"

\* executeFor*: process == 1 returns None, anything else reads the stats file.
executeReadsStats(variant, status) == status # 1

\* run(): build() returned False, return None.
buildFailedResult == Returned(NoValue)

\* executeFor*: process == 1, return None; run() returns it.
execFailedResult(variant) == Returned(NoValue)

\* os.environ['PATH'], as a list of directories.
InheritedPath == <<"inherited">>

\* The PATH of the environment the build process is started with:
\* buildForWindows and buildForLinux pass no env, buildForMingw passes the
\* copy of os.environ, which line 68 raises before changing.
buildEnv(variant, gcc) == InheritedPath

\* buildForMingw: a non-empty Common.gccPath reads the name gccPath, which
\* the function does not define.
mingwEnvRaises(gcc) == gcc # ""

(***************************************************************************)
(* State.                                                                   *)
(***************************************************************************)
VARIABLES
    args,         \* self.args: the axis selections, load_sf, tempdir, outdir
    host,         \* util.windows(), Common.mingw, Common.gccPath
    wordLength,   \* config.wordLength
    fs0,          \* the filesystem the program started in
    fs,           \* the filesystem
    probe,        \* checkMSBuildPath: whether it ran, the candidates that exist
    config,       \* config.tempdir, config.outdir, config.msbuildPath
    pc,           \* where the driver is
    exc,          \* the exception that ended the program, "none" otherwise
    idx,          \* 1-based position of the sweep in sweepPoints
    processed,    \* the points handed to main.Main(...).run(), in order
    bitwidth,     \* the local bitwidth of runMainDriver
    predictor,    \* the Predictor of the current point
    proc,         \* the child processes that are running
    result        \* what the last Predictor.run returned or raised

vars ==
    <<args, host, wordLength, fs0, fs, probe, config, pc, exc, idx, processed,
      bitwidth, predictor, proc, result>>

NoStatus == 0 - 1

NoResult == [kind |-> "none", value |-> NoValue, exc |-> "none"]

\* What is kept of an earlier run() of the same Predictor: none yet.
NoRun ==
    [stage |-> "None", result |-> NoResult, buildStatus |-> NoStatus,
     execStatus |-> NoStatus, stats |-> AbsentFile]

\* A Predictor before __init__ has run.
NoPredictor ==
    [stage |-> "None", outputDir |-> NoPath, buildStatus |-> NoStatus,
     execStatus |-> NoStatus, builds |-> 0, execs |-> 0, stats |-> AbsentFile,
     statsReads |-> 0, written |-> {}, first |-> NoRun, env |-> NoPath,
     built |-> "none", executed |-> "none"]

(***************************************************************************)
(* The inputs.  args is self.args as lines 100-111 of parseArgs leave it:   *)
(* every axis a list.  The inputs are four families, each varying one part  *)
(* of the input with the rest at its default: the axis selections, the      *)
(* directories, the host, and the word length with --load-sf.               *)
(***************************************************************************)
\* Directories the user can name with --tempdir and --outdir.
ScratchArg == <<"scratch">>
OutArg == <<"out">>

\* A directory left by an earlier run holds files of that run, one of them
\* in a subdirectory.
OldDirs(d) == {d, d \o <<"arduino">>}

OldFiles(d) == {d \o <<"old.txt">>, d \o <<"arduino", "old.txt">>}

Filesystems ==
    {[dirs |-> UNION {OldDirs(d) : d \in D}, files |-> UNION {OldFiles(d) : d \in D}] :
        D \in SUBSET {DefaultTempdir, ScratchArg, OutArg}}

EmptyFilesystem == [dirs |-> {}, files |-> {}]

Hosts ==
    {h \in [windows : BOOLEAN, mingw : BOOLEAN, gccPath : {"", "C:\\MinGW\\bin"}] :
        h.gccPath # "" => (h.windows /\ h.mingw)}

\* The parser's defaults, a host that is not Windows, the base word length.
DefaultArgs ==
    [algo |-> <<"protonn">>, encoding |-> <<"fixed">>, dataset |-> <<"cifar-binary">>,
     target |-> <<"x86">>, maximisingMetric |-> <<"acc">>, load_sf |-> FALSE,
     tempdir |-> NoPath, outdir |-> NoPath]

DefaultHost == [windows |-> FALSE, mingw |-> FALSE, gccPath |-> ""]

Input(a, h, w, f) == [args |-> a, host |-> h, wordLength |-> w, fs |-> f]

\* Any selection of the axes of at most MaxPoints points.
AxisSelections ==
    {x \in Selections(Algos, MaxAxisLen) \X Selections(Encodings, MaxAxisLen)
            \X Selections(Datasets, MaxAxisLen) \X Selections(Targets, MaxAxisLen)
            \X Selections(Metrics, MaxAxisLen) :
        Len(x[1]) * Len(x[2]) * Len(x[3]) * Len(x[4]) * Len(x[5]) =< MaxPoints}

AxisInputs ==
    {Input([DefaultArgs EXCEPT !.algo = x[1], !.encoding = x[2], !.dataset = x[3],
                               !.target = x[4], !.maximisingMetric = x[5]],
           DefaultHost, BaseWordLength, EmptyFilesystem) : x \in AxisSelections}

\* Any --tempdir and --outdir, in any filesystem, for any targets.
DirectoryInputs ==
    {Input([DefaultArgs EXCEPT !.target = tg, !.tempdir = td, !.outdir = od],
           DefaultHost, BaseWordLength, f) :
        tg \in Selections(Targets, MaxAxisLen), td \in {NoPath, ScratchArg},
        od \in {NoPath, OutArg}, f \in Filesystems}

\* Any host.
HostInputs ==
    {Input(DefaultArgs, h, BaseWordLength, EmptyFilesystem) : h \in Hosts}

\* Any word length and --load-sf, for any encodings.
WordLengthInputs ==
    {Input([DefaultArgs EXCEPT !.encoding = en, !.load_sf = ls],
           DefaultHost, w, EmptyFilesystem) :
        en \in Selections(Encodings, MaxAxisLen), ls \in BOOLEAN, w \in WordLengths}

Inputs == AxisInputs \cup DirectoryInputs \cup HostInputs \cup WordLengthInputs

Init ==
    /\ \E in \in Inputs :
        /\ args = in.args
        /\ host = in.host
        /\ wordLength = in.wordLength
        /\ fs0 = in.fs
    /\ fs = fs0
    /\ probe = [ran |-> FALSE, existing |-> {}]
    /\ config = [tempdir |-> NoPath, outdir |-> NoPath, msbuildPath |-> 0]
    /\ pc = "parseArgs"
    /\ exc = "none"
    /\ idx = 0
    /\ processed = <<>>
    /\ bitwidth = "unassigned"
    /\ predictor = NoPredictor
    /\ proc = {}
    /\ result = NoResult

(***************************************************************************)
(* MainDriver.parseArgs (the part after the parser).                        *)
(***************************************************************************)
ParseArgsRaises ==
    /\ pc = "parseArgs"
    /\ \/ tempdirAssertFails(fs, args)
       \/ outdirAssertFails(scratchSetup(fs, args), args)
    /\ fs' = IF tempdirAssertFails(fs, args) THEN fs ELSE scratchSetup(fs, args)
    /\ config' = IF tempdirAssertFails(fs, args) THEN config
                 ELSE [config EXCEPT !.tempdir = tempdirOf(args)]
    /\ pc' = "raised"
    /\ exc' = "AssertionError"
    /\ UNCHANGED <<args, host, wordLength, fs0, probe, idx, processed, bitwidth,
                   predictor, proc, result>>

ParseArgs ==
    /\ pc = "parseArgs"
    /\ ~tempdirAssertFails(fs, args)
    /\ ~outdirAssertFails(scratchSetup(fs, args), args)
    /\ fs' = outdirSetup(scratchSetup(fs, args), args)
    /\ config' = [config EXCEPT !.tempdir = tempdirOf(args), !.outdir = outdirOf(args)]
    /\ pc' = "run"
    /\ UNCHANGED <<args, host, wordLength, fs0, probe, exc, idx, processed, bitwidth,
                   predictor, proc, result>>

(***************************************************************************)
(* MainDriver.run: setLogLevel, checkMSBuildPath on Windows, setGlobalFlags, *)
(* then runMainDriver.                                                      *)
(***************************************************************************)
RunRaises ==
    /\ pc = "run"
    /\ host.windows
    /\ \E existing \in SUBSET (1..MaxCandidates) :
        /\ ~found(existing)
        /\ probe' = [ran |-> TRUE, existing |-> existing]
        /\ config' = [config EXCEPT !.msbuildPath = scanCandidates(1, existing, @)]
    /\ pc' = "raised"
    /\ exc' = "Exception"
    /\ UNCHANGED <<args, host, wordLength, fs0, fs, idx, processed, bitwidth,
                   predictor, proc, result>>

Run ==
    /\ pc = "run"
    /\ IF host.windows
       THEN \E existing \in SUBSET (1..MaxCandidates) :
               /\ found(existing)
               /\ probe' = [ran |-> TRUE, existing |-> existing]
               /\ config' = [config EXCEPT !.msbuildPath = scanCandidates(1, existing, @)]
       ELSE UNCHANGED <<probe, config>>
    /\ pc' = "sweep"
    /\ idx' = 1
    /\ UNCHANGED <<args, host, wordLength, fs0, fs, exc, processed, bitwidth,
                   predictor, proc, result>>

(***************************************************************************)
(* MainDriver.runMainDriver: one iteration up to the call of                *)
(* main.Main(...).run(), or the end of the loop.                            *)
(***************************************************************************)
Point == sweepPoints(args)[idx]

SweepDone ==
    /\ pc = "sweep"
    /\ idx > Len(sweepPoints(args))
    /\ pc' = "done"
    /\ UNCHANGED <<args, host, wordLength, fs0, fs, probe, config, exc, idx, processed,
                   bitwidth, predictor, proc, result>>

SweepPointRaises ==
    /\ pc = "sweep"
    /\ idx =< Len(sweepPoints(args))
    /\ bitwidthAssertFails(Point[2], wordLength, args.load_sf)
    /\ pc' = "raised"
    /\ exc' = "AssertionError"
    /\ UNCHANGED <<args, host, wordLength, fs0, fs, probe, config, idx, processed,
                   bitwidth, predictor, proc, result>>

SweepPoint ==
    /\ pc = "sweep"
    /\ idx =< Len(sweepPoints(args))
    /\ ~bitwidthAssertFails(Point[2], wordLength, args.load_sf)
    /\ bitwidth' = IF deriveBitwidth(Point[2], wordLength) = "AssertionError"
                   THEN bitwidth
                   ELSE deriveBitwidth(Point[2], wordLength)
    /\ processed' = Append(processed, Point)
    /\ pc' = "main"
    /\ UNCHANGED <<args, host, wordLength, fs0, fs, probe, config, exc, idx,
                   predictor, proc, result>>

(***************************************************************************)
(* main.Main.run: checks the point's dataset and model paths, produces the  *)
(* source to build, and runs one Predictor with an output directory of the  *)
(* point's own.  A missing path ends the point only.                        *)
(***************************************************************************)
outputDirOf(point) == config.outdir \o SubSeq(point, 1, 5)

MainAbortsPoint ==
    /\ pc = "main"
    /\ result' = NoResult
    /\ predictor' = NoPredictor
    /\ idx' = idx + 1
    /\ pc' = "sweep"
    /\ UNCHANGED <<args, host, wordLength, fs0, fs, probe, config, exc, processed,
                   bitwidth, proc>>

\* Predictor.__init__
MainStartsPredictor ==
    /\ pc = "main"
    /\ predictor' = [NoPredictor EXCEPT !.stage = "Idle", !.outputDir = outputDirOf(Point)]
    /\ fs' = makedirs(fs, outputDirOf(Point))
    /\ result' = NoResult
    /\ pc' = "predictor"
    /\ UNCHANGED <<args, host, wordLength, fs0, probe, config, exc, idx, processed,
                   bitwidth, proc>>

\* Predictor.run has returned or raised: the point is over.
MainReturns ==
    /\ pc = "predictor"
    /\ result.kind # "none"
    /\ idx' = idx + 1
    /\ pc' = "sweep"
    /\ UNCHANGED <<args, host, wordLength, fs0, fs, probe, config, exc, processed,
                   bitwidth, predictor, proc, result>>

(***************************************************************************)
(* Predictor.run: build(), then execute() unless build() returned False.    *)
(***************************************************************************)
\* A build that also fails when an exec log is there already.
buildReturnsInFreshDir(variant, status) ==
    status # 1 /\ \A x \in fs.files : x[Len(x)] # execLogName(variant)

\* buildFor*: process == 1 returns False, anything else True.
buildReturns(variant, status) == status # 1

\* The build log, named without the output directory.
BuildLogInWorkingDir == <<buildLogName(buildVariant(host.windows, host.mingw))>>

BuildLog == predictor.outputDir \o <<buildLogName(buildVariant(host.windows, host.mingw))>>

\* The exec log, joined to config.outdir instead of self.outputDir.
ExecLogInSweepDir == config.outdir \o <<execLogName(executeVariant(host.windows, host.mingw))>>

ExecLog == predictor.outputDir \o <<execLogName(executeVariant(host.windows, host.mingw))>>

\* A child process subprocess.call started: the build or the artifact, of
\* the point the sweep is at.
Child(kind) == <<kind, idx>>

\* buildForMingw with a compiler root configured.
BuildRaises ==
    /\ pc = "predictor"
    /\ predictor.stage = "Idle"
    /\ buildVariant(host.windows, host.mingw) = "mingw"
    /\ mingwEnvRaises(host.gccPath)
    /\ predictor' = [predictor EXCEPT !.stage = "Raised"]
    /\ result' = Raised("NameError")
    /\ UNCHANGED <<args, host, wordLength, fs0, fs, probe, config, pc, exc, idx,
                   processed, bitwidth, proc>>

\* The build process started and not waited for: build() returns True at
\* once.
BuildStartDetached ==
    /\ pc = "predictor"
    /\ predictor.stage = "Idle"
    /\ ~(buildVariant(host.windows, host.mingw) = "mingw" /\ mingwEnvRaises(host.gccPath))
    /\ fs' = openForWrite(fs, BuildLog)
    /\ predictor' = [predictor EXCEPT
                        !.stage = "Built", !.builds = @ + 1,
                        !.written = @ \cup {BuildLog},
                        !.env = buildEnv(buildVariant(host.windows, host.mingw),
                                         host.gccPath),
                        !.built = buildVariant(host.windows, host.mingw)]
    /\ proc' = proc \cup {Child("build")}
    /\ UNCHANGED <<args, host, wordLength, fs0, probe, config, pc, exc, idx, processed,
                   bitwidth, result>>

\* The build log is opened for writing and the build process starts.
BuildStart ==
    /\ pc = "predictor"
    /\ predictor.stage = "Idle"
    /\ ~(buildVariant(host.windows, host.mingw) = "mingw" /\ mingwEnvRaises(host.gccPath))
    /\ fs' = openForWrite(fs, BuildLog)
    /\ predictor' = [predictor EXCEPT
                        !.stage = "Building", !.builds = @ + 1,
                        !.written = @ \cup {BuildLog},
                        !.env = buildEnv(buildVariant(host.windows, host.mingw),
                                         host.gccPath),
                        !.built = buildVariant(host.windows, host.mingw)]
    /\ proc' = proc \cup {Child("build")}
    /\ UNCHANGED <<args, host, wordLength, fs0, probe, config, pc, exc, idx, processed,
                   bitwidth, result>>

\* A build that failed is started over instead of ending the run.
BuildExitRetrying ==
    /\ pc = "predictor"
    /\ predictor.stage = "Building"
    /\ Child("build") \in proc
    /\ \E status \in ExitStatuses :
        IF buildReturns(buildVariant(host.windows, host.mingw), status)
        THEN predictor' = [predictor EXCEPT !.stage = "Built", !.buildStatus = status]
        ELSE predictor' = [predictor EXCEPT !.stage = "Idle", !.builds = 0]
    /\ proc' = proc \ {Child("build")}
    /\ UNCHANGED <<args, host, wordLength, fs0, fs, probe, config, pc, exc, idx,
                   processed, bitwidth, result>>

\* The build process exits; build() returns; run() returns None on False.
BuildExit ==
    /\ pc = "predictor"
    /\ predictor.stage = "Building"
    /\ Child("build") \in proc
    /\ \E status \in ExitStatuses :
        IF buildReturns(buildVariant(host.windows, host.mingw), status)
        THEN /\ predictor' = [predictor EXCEPT !.stage = "Built", !.buildStatus = status]
             /\ UNCHANGED result
        ELSE /\ predictor' = [predictor EXCEPT !.stage = "BuildFailed", !.buildStatus = status]
             /\ result' = buildFailedResult
    /\ proc' = proc \ {Child("build")}
    /\ UNCHANGED <<args, host, wordLength, fs0, fs, probe, config, pc, exc, idx,
                   processed, bitwidth>>

\* execute() called whatever build() returned.
ExecStartAfterAnyBuild ==
    /\ pc = "predictor"
    /\ predictor.stage \in {"Built", "BuildFailed"}
    /\ fs' = openForWrite(fs, ExecLog)
    /\ predictor' = [predictor EXCEPT
                        !.stage = "Executing", !.execs = @ + 1,
                        !.written = @ \cup {ExecLog},
                        !.executed = executeVariant(host.windows, host.mingw)]
    /\ proc' = proc \cup {Child("exec")}
    /\ result' = NoResult
    /\ UNCHANGED <<args, host, wordLength, fs0, probe, config, pc, exc, idx, processed,
                   bitwidth>>

\* The exec log is opened for writing and the artifact starts.
ExecStart ==
    /\ pc = "predictor"
    /\ predictor.stage = "Built"
    /\ fs' = openForWrite(fs, ExecLog)
    /\ predictor' = [predictor EXCEPT
                        !.stage = "Executing", !.execs = @ + 1,
                        !.written = @ \cup {ExecLog},
                        !.executed = executeVariant(host.windows, host.mingw)]
    /\ proc' = proc \cup {Child("exec")}
    /\ UNCHANGED <<args, host, wordLength, fs0, probe, config, pc, exc, idx, processed,
                   bitwidth, result>>

\* The artifact exits, leaving the stats file it leaves; execute() returns
\* None or goes on to read the stats file.
ExecExit ==
    /\ pc = "predictor"
    /\ predictor.stage = "Executing"
    /\ Child("exec") \in proc
    /\ \E status \in ExitStatuses :
        IF executeReadsStats(executeVariant(host.windows, host.mingw), status)
        THEN /\ \E file \in StatsSamples :
                  predictor' = [predictor EXCEPT !.stage = "ParsingResult",
                                                 !.execStatus = status, !.stats = file]
             /\ UNCHANGED result
        ELSE /\ predictor' = [predictor EXCEPT !.stage = "ExecFailed",
                                               !.execStatus = status]
             /\ result' = execFailedResult(executeVariant(host.windows, host.mingw))
    /\ proc' = proc \ {Child("exec")}
    /\ UNCHANGED <<args, host, wordLength, fs0, fs, probe, config, pc, exc, idx,
                   processed, bitwidth>>

\* readStatsFile, on the stats file the artifact left; execute() and run()
\* return what it returns, and what it raises leaves run().
ReadStats ==
    /\ pc = "predictor"
    /\ predictor.stage = "ParsingResult"
    /\ result' = readStatsFile(predictor.stats)
    /\ predictor' = [predictor EXCEPT
                        !.stage = IF readStatsFile(predictor.stats).kind = "raise"
                                  THEN "Raised" ELSE "Done",
                        !.statsReads = @ + 1]
    /\ UNCHANGED <<args, host, wordLength, fs0, fs, probe, config, pc, exc, idx,
                   processed, bitwidth, proc>>

Next ==
    \/ ParseArgsRaises
    \/ ParseArgs
    \/ RunRaises
    \/ Run
    \/ SweepDone
    \/ SweepPointRaises
    \/ SweepPoint
    \/ MainAbortsPoint
    \/ MainStartsPredictor
    \/ MainReturns
    \/ BuildRaises
    \/ BuildStart
    \/ BuildExit
    \/ ExecStart
    \/ ExecExit
    \/ ReadStats

Spec == Init /\ [][Next]_vars

(***************************************************************************)
(* The program under fairness: the interpreter goes on to the next          *)
(* statement whenever there is one, and every child process that was        *)
(* started exits.                                                           *)
(***************************************************************************)
\* Inputs of each kind: every host, every word length with --load-sf for
\* every sweep over the encodings, and the directories given or not in an
\* empty and in a used filesystem.
FairInputs ==
    HostInputs \cup WordLengthInputs
    \cup {Input([DefaultArgs EXCEPT !.tempdir = td, !.outdir = od],
                DefaultHost, BaseWordLength, f) :
             td \in {NoPath, ScratchArg}, od \in {NoPath, OutArg},
             f \in {g \in Filesystems : g.dirs = {} \/ isdir(g, ScratchArg)}}

InitFair ==
    /\ \E in \in FairInputs :
        /\ args = in.args
        /\ host = in.host
        /\ wordLength = in.wordLength
        /\ fs0 = in.fs
    /\ fs = fs0
    /\ probe = [ran |-> FALSE, existing |-> {}]
    /\ config = [tempdir |-> NoPath, outdir |-> NoPath, msbuildPath |-> 0]
    /\ pc = "parseArgs"
    /\ exc = "none"
    /\ idx = 0
    /\ processed = <<>>
    /\ bitwidth = "unassigned"
    /\ predictor = NoPredictor
    /\ proc = {}
    /\ result = NoResult

DriverStep ==
    \/ ParseArgsRaises
    \/ ParseArgs
    \/ RunRaises
    \/ Run
    \/ SweepDone
    \/ SweepPointRaises
    \/ SweepPoint
    \/ MainAbortsPoint
    \/ MainStartsPredictor
    \/ MainReturns
    \/ BuildRaises
    \/ BuildStart
    \/ ExecStart
    \/ ReadStats

ChildExits == BuildExit \/ ExecExit

SpecFair == InitFair /\ [][Next]_vars /\ WF_vars(DriverStep) /\ WF_vars(ChildExits)

(***************************************************************************)
(* Predictor.readStatsFile alone, on every stats file within the bounds: a  *)
(* Predictor whose build and execute have passed, about to read the file.   *)
(***************************************************************************)
InitStats ==
    /\ args = DefaultArgs
    /\ host = DefaultHost
    /\ wordLength = BaseWordLength
    /\ fs0 = EmptyFilesystem
    /\ fs = EmptyFilesystem
    /\ probe = [ran |-> FALSE, existing |-> {}]
    /\ config = [tempdir |-> NoPath, outdir |-> NoPath, msbuildPath |-> 0]
    /\ pc = "predictor"
    /\ exc = "none"
    /\ idx = 0
    /\ processed = <<>>
    /\ bitwidth = "unassigned"
    /\ \E file \in StatsFiles :
        predictor = [NoPredictor EXCEPT !.stage = "ParsingResult", !.outputDir = OutArg,
                                        !.buildStatus = 0, !.execStatus = 0,
                                        !.builds = 1, !.execs = 1, !.stats = file]
    /\ proc = {}
    /\ result = NoResult

SpecStats == InitStats /\ [][ReadStats]_vars

(***************************************************************************)
(* Predictor.run called twice on one Predictor: the second call starts when *)
(* the first has returned or raised, in the filesystem the first left.      *)
(***************************************************************************)
Terminal(stage) == stage \in {"BuildFailed", "ExecFailed", "Done", "Raised"}

InitTwice ==
    /\ args = DefaultArgs
    /\ host \in Hosts
    /\ wordLength = BaseWordLength
    /\ fs0 = makedirs(EmptyFilesystem, OutArg)
    /\ fs = fs0
    /\ probe = [ran |-> FALSE, existing |-> {}]
    /\ config = [tempdir |-> NoPath, outdir |-> NoPath, msbuildPath |-> 0]
    /\ pc = "predictor"
    /\ exc = "none"
    /\ idx = 0
    /\ processed = <<>>
    /\ bitwidth = "unassigned"
    /\ predictor = [NoPredictor EXCEPT !.stage = "Idle", !.outputDir = OutArg]
    /\ proc = {}
    /\ result = NoResult

\* The caller keeps what the first run() gave and calls run() again.
RunAgain ==
    /\ pc = "predictor"
    /\ Terminal(predictor.stage)
    /\ predictor.first = NoRun
    /\ predictor' = [predictor EXCEPT
                        !.first = [stage |-> predictor.stage, result |-> result,
                                   buildStatus |-> predictor.buildStatus,
                                   execStatus |-> predictor.execStatus,
                                   stats |-> predictor.stats],
                        !.stage = "Idle", !.buildStatus = NoStatus,
                        !.execStatus = NoStatus, !.builds = 0, !.execs = 0,
                        !.stats = AbsentFile, !.statsReads = 0,
                        !.built = "none", !.executed = "none"]
    /\ result' = NoResult
    /\ UNCHANGED <<args, host, wordLength, fs0, fs, probe, config, pc, exc, idx,
                   processed, bitwidth, proc>>

NextTwice ==
    \/ BuildRaises
    \/ BuildStart
    \/ BuildExit
    \/ ExecStart
    \/ ExecExit
    \/ ReadStats
    \/ RunAgain

SpecTwice == InitTwice /\ [][NextTwice]_vars

(***************************************************************************)
(* Properties.                                                              *)
(***************************************************************************)
\* runMainDriver has been entered.
SweepEntered == idx >= 1

\* runMainDriver is over: it returned, or an exception left it.
SweepOver == pc = "done" \/ (pc = "raised" /\ SweepEntered)

\* The point number k (from 0) of the cartesian product, by its digits in
\* the mixed radix of the axis lengths: metric fastest, algorithm slowest.
PointAt(a, k) ==
    LET nM == Len(a.maximisingMetric)
        nT == Len(a.target)
        nD == Len(a.dataset)
        nE == Len(a.encoding)
        nA == Len(a.algo)
    IN  <<a.algo[((k \div (nM * nT * nD * nE)) % nA) + 1],
          a.encoding[((k \div (nM * nT * nD)) % nE) + 1],
          a.dataset[((k \div (nM * nT)) % nD) + 1],
          a.target[((k \div nM) % nT) + 1],
          a.maximisingMetric[(k % nM) + 1],
          BaseWordLength>>

NumPoints(a) ==
    Len(a.algo) * Len(a.encoding) * Len(a.dataset) * Len(a.target) * Len(a.maximisingMetric)

CartesianPoints(a) == [k \in 1..NumPoints(a) |-> PointAt(a, k - 1)]

\* C1: when the sweep is over it has processed exactly the
\* |algo| x |encoding| x |dataset| x |target| x |metric| points of the
\* cartesian product, each once, in axis order with the algorithm slowest.
C1_SweepProcessesEveryPoint == SweepOver => processed = CartesianPoints(args)

\* A sweep that returned has processed every point, in order.
CompletedSweepProcessedEveryPoint == pc = "done" => processed = CartesianPoints(args)

\* While the sweep runs, the points processed are the first of the product.
ProcessedIsPrefix ==
    SweepEntered =>
        /\ Len(processed) =< NumPoints(args)
        /\ processed = SubSeq(CartesianPoints(args), 1, Len(processed))

\* C2: once the sweep has been entered no error leaves runMainDriver: a
\* failure of one point (its bit-width derivation included) does not end
\* the sweep.
C2_PointFailureNeverEndsSweep == SweepEntered => (pc # "raised" /\ exc = "none")

BuildLogNames == {"msbuild.txt", "gccbuild.txt"}

BuildLogsIn(f) == {x \in f.files : x[Len(x)] \in BuildLogNames}

\* C3: when checkMSBuildPath finds no candidate, run raises before the first
\* point: no point is processed, no Predictor exists, no child process is or
\* was started, and the filesystem holds no build log.
C3_NoToolchainNoPoint ==
    (probe.ran /\ probe.existing = {}) =>
        /\ pc = "raised" /\ exc = "Exception"
        /\ ~SweepEntered
        /\ processed = <<>>
        /\ predictor = NoPredictor
        /\ proc = {}
        /\ BuildLogsIn(fs) = {}

C3_Witness == probe.ran /\ probe.existing = {} /\ pc = "raised"

\* C4: a build process that exited with any non-zero status leaves the run
\* in BuildFailed: execute() is not invoked, the exec log is not written,
\* and run() returns None.
C4_NonZeroBuildStatusFails ==
    (predictor.buildStatus # NoStatus /\ predictor.buildStatus # 0) =>
        /\ predictor.stage = "BuildFailed"
        /\ predictor.execs = 0
        /\ ExecLog \notin predictor.written
        /\ result = Returned(NoValue)

\* C5: an artifact that exited with any non-zero status leaves the run in
\* ExecFailed: the stats file is not read and the run returns None.
C5_NonZeroExecStatusFails ==
    (predictor.execStatus # NoStatus /\ predictor.execStatus # 0) =>
        /\ predictor.stage = "ExecFailed"
        /\ predictor.statsReads = 0
        /\ result = Returned(NoValue)

\* A line is a number when, between leading and trailing whitespace, it is
\* digits with at most one "." among them, and at least one digit.
DigitStrings(n) == UNION {[1..k -> Digits] : k \in 0..n}

Blanks(n) == UNION {[1..k -> Whitespace] : k \in 0..n}

NumberLines(line) ==
    {<<w, f, dot>> \in DigitStrings(Len(line)) \X DigitStrings(Len(line)) \X {<<>>, <<".">>} :
        /\ Len(w) + Len(f) > 0
        /\ (dot = <<>> => f = <<>>)
        /\ \E l, r \in Blanks(Len(line)) : line = l \o w \o dot \o f \o r}

NumberOf(n) ==
    DigitsValue(n[1]) * FloatScale + DigitsValue(n[2]) * (FloatScale \div (10 ^ Len(n[2])))

\* C6: readStatsFile returns the number on the trimmed first line; an empty
\* file or a first line that is no number is one failure (IndexError or
\* ValueError), an absent file another (FileNotFoundError), and a failure
\* never comes with a value.
C6_ReadStatsFile ==
    predictor.statsReads > 0 =>
        LET file == predictor.stats
        IN  /\ ~file.present => result = Raised("FileNotFoundError")
            /\ (file.present /\ file.lines = <<>>) =>
                   (result.kind = "raise" /\ result.exc \in {"IndexError", "ValueError"}
                       /\ result.value = NoValue)
            /\ (file.present /\ file.lines # <<>> /\ NumberLines(file.lines[1]) = {}) =>
                   (result.kind = "raise" /\ result.exc \in {"IndexError", "ValueError"}
                       /\ result.value = NoValue)
            /\ (file.present /\ file.lines # <<>>) =>
                   \A n \in NumberLines(file.lines[1]) : result = Returned(NumberOf(n))

C6_Witness ==
    /\ predictor.statsReads > 0
    /\ predictor.stats = FileOf(<<>>)
    /\ result.kind = "raise"

BadStats(file) ==
    ~file.present \/ file.lines = <<>> \/ NumberLines(file.lines[1]) = {}

\* C7: when build and execute passed and the stats file is missing or
\* malformed, run() returns a failure to its caller and raises nothing.
C7_BadStatsReturnsFailure ==
    (predictor.statsReads > 0 /\ BadStats(predictor.stats)) =>
        (result.kind = "return" /\ result.value = NoValue)

\* C8: the toolchain path stored is the earliest candidate that exists.
C8_FirstExistingCandidate ==
    (probe.ran /\ probe.existing # {}) =>
        /\ config.msbuildPath \in probe.existing
        /\ \A i \in probe.existing : config.msbuildPath =< i

Below(f, d) == {x \in f.files : IsPrefix(d, x)}

\* C9: after parseArgs, without --tempdir the directory temp exists and
\* nothing that was in it before is left; with a --tempdir that exists it
\* is config.tempdir and no file that was in it, or in temp, is gone; with
\* a --tempdir that does not exist the program has raised, no point was
\* processed and the filesystem is as it was.
C9_ScratchDirectory ==
    pc # "parseArgs" =>
        /\ args.tempdir = NoPath =>
              /\ isdir(fs, DefaultTempdir)
              /\ config.tempdir = DefaultTempdir
              /\ Below(fs, DefaultTempdir) \cap fs0.files = {}
        /\ (args.tempdir # NoPath /\ isdir(fs0, args.tempdir)) =>
              /\ config.tempdir = args.tempdir
              /\ fs0.files \subseteq fs.files
              /\ fs0.dirs \subseteq fs.dirs
        /\ (args.tempdir # NoPath /\ ~isdir(fs0, args.tempdir)) =>
              /\ pc = "raised" /\ exc = "AssertionError"
              /\ ~SweepEntered /\ processed = <<>>
              /\ fs = fs0

C9_Witness ==
    /\ args.tempdir = NoPath
    /\ Below(fs0, DefaultTempdir) # {}
    /\ pc = "predictor"
    /\ predictor.stage = "Building"

Embedded == {"arduino", "m3"}

\* The output subtree of the default (x86) target.
NativeOutdir == config.tempdir \o <<"arduino">>

\* C10: without --outdir, a point of an embedded target is processed with an
\* output directory outside the subtree the x86 target uses.
C10_EmbeddedOutdirDistinct ==
    (pc \in {"main", "predictor"} /\ args.outdir = NoPath /\ Point[4] \in Embedded) =>
        ~IsPrefix(NativeOutdir, config.outdir)

\* The tags the try block of runMainDriver assigns.
BitwidthTags == {"float", "int8", "int16", "int32"}

\* C11: a point handed to main.Main(...).run() has had exactly one tag of
\* {float, int8, int16, int32} assigned for it, the tag of its encoding and
\* of config.wordLength; a point whose derivation failed is not handed over.
C11_BitwidthAssignedBeforeBuild ==
    pc \in {"main", "predictor"} =>
        /\ bitwidth \in BitwidthTags
        /\ bitwidth = deriveBitwidth(Point[2], wordLength)

ExecLogsIn(f) == {x \in f.files : x[Len(x)] = "exec.txt"}

C13_FailedStageRecoverable ==
    /\ predictor.stage = "BuildFailed" =>
           result # execFailedResult(executeVariant(host.windows, host.mingw))
    /\ predictor.stage = "ExecFailed" => result # buildFailedResult

\* Each child process both runs started exited in the second run as it did
\* in the first, the artifact leaving the stats file it left then.
SameChildren ==
    /\ (predictor.buildStatus # NoStatus /\ predictor.first.buildStatus # NoStatus) =>
           predictor.buildStatus = predictor.first.buildStatus
    /\ (predictor.execStatus # NoStatus /\ predictor.first.execStatus # NoStatus) =>
           /\ predictor.execStatus = predictor.first.execStatus
           /\ predictor.stats = predictor.first.stats

C15_MingwBuildEnvironment ==
    (pc = "predictor" /\ buildVariant(host.windows, host.mingw) = "mingw"
        /\ predictor.stage # "Idle") =>
        /\ predictor.builds = 1
        /\ predictor.env = IF host.gccPath # "" THEN <<host.gccPath>> \o InheritedPath
                           ELSE InheritedPath
        /\ predictor.stage = "Raised" => predictor.statsReads > 0

\* The steps of one run(): from each stage, the stages that may follow it.
StageSteps ==
    {<<"Idle", "Building">>, <<"Idle", "Raised">>,
     <<"Building", "Built">>, <<"Building", "BuildFailed">>,
     <<"Built", "Executing">>,
     <<"Executing", "ParsingResult">>, <<"Executing", "ExecFailed">>,
     <<"ParsingResult", "Done">>, <<"ParsingResult", "Raised">>}

\* C16: within one run() the stages follow Idle, Building, Executing,
\* ParsingResult: the artifact is started only when build() has returned
\* True, the stats file is read only when the artifact's exit passed
\* execute()'s test, the build, the artifact and the read each happen at
\* most once, and after a stage that failed nothing more is started.
C16_StagesInOrder ==
    [][(pc = "predictor" /\ pc' = "predictor") =>
          /\ predictor'.stage # predictor.stage =>
                 <<predictor.stage, predictor'.stage>> \in StageSteps
          /\ predictor'.execs > predictor.execs =>
                 /\ predictor.stage = "Built"
                 /\ buildReturns(buildVariant(host.windows, host.mingw),
                                 predictor.buildStatus)
          /\ predictor'.statsReads > predictor.statsReads =>
                 /\ predictor.stage = "ParsingResult"
                 /\ executeReadsStats(executeVariant(host.windows, host.mingw),
                                      predictor.execStatus)
          /\ predictor'.builds =< 1 /\ predictor'.execs =< 1 /\ predictor'.statsReads =< 1
          /\ Terminal(predictor.stage) =>
                 /\ predictor'.stage = predictor.stage
                 /\ predictor'.builds = predictor.builds
                 /\ predictor'.execs = predictor.execs
                 /\ predictor'.statsReads = predictor.statsReads
                 /\ proc' = {}]_vars

C16_Witness ==
    /\ pc = "predictor"
    /\ predictor.stage = "Done"
    /\ predictor.builds = 1 /\ predictor.execs = 1 /\ predictor.statsReads = 1

\* C17: the variant execute() selects is the variant build() selected: on a
\* host that is not Windows the make variant whatever Common.mingw is, on
\* Windows the mingw variant with Common.mingw and the msbuild variant
\* without; a run that has started the artifact built with that variant.
C17_SameVariant ==
    /\ \A win, mgw \in BOOLEAN :
          /\ buildVariant(win, mgw) = executeVariant(win, mgw)
          /\ ~win => buildVariant(win, mgw) = "linux"
          /\ (win /\ mgw) => buildVariant(win, mgw) = "mingw"
          /\ (win /\ ~mgw) => buildVariant(win, mgw) = "windows"
    /\ (pc = "predictor" /\ predictor.execs > 0) =>
          /\ predictor.built # "none"
          /\ predictor.executed = predictor.built

C17_Witness ==
    /\ pc = "predictor"
    /\ predictor.execs > 0
    /\ ~host.windows /\ host.mingw
    /\ predictor.built = "linux"
    /\ predictor.executed = "linux"

\* C18: a step of run() removes no file and no directory and adds at most
\* the build log or the exec log; what the run has written are files
\* directly in its outputDir, the build log (gccbuild.txt on the mingw
\* path, msbuild.txt otherwise) and exec.txt: both once the artifact has
\* been started, the build log alone when build() returned False.
C18_WritesOnlyItsLogs ==
    [][(pc = "predictor" /\ pc' = "predictor") =>
          /\ fs.files \subseteq fs'.files
          /\ fs'.dirs = fs.dirs
          /\ fs'.files \ fs.files \subseteq predictor'.written
          /\ predictor'.written \subseteq fs'.files
          /\ \A x \in predictor'.written :
                 /\ SubSeq(x, 1, Len(x) - 1) = predictor.outputDir
                 /\ x[Len(x)] \in
                        {IF host.windows /\ host.mingw THEN "gccbuild.txt" ELSE "msbuild.txt",
                         "exec.txt"}
          /\ predictor'.execs > 0 =>
                 /\ Cardinality(predictor'.written) = 2
                 /\ Cardinality(BuildLogsIn([files |-> predictor'.written])) = 1
                 /\ Cardinality(ExecLogsIn([files |-> predictor'.written])) = 1
          /\ predictor'.stage = "BuildFailed" =>
                 /\ Cardinality(predictor'.written) = 1
                 /\ BuildLogsIn([files |-> predictor'.written]) = predictor'.written]_vars

C18_Witness ==
    /\ pc = "predictor"
    /\ predictor.execs = 1
    /\ Cardinality(predictor.written) = 2
    /\ args.outdir = OutArg
    /\ OldFiles(OutArg) \subseteq fs.files

\* C19: at most one child process is running; the artifact of a point is
\* started only when no child is running and the point's build process has
\* exited; and the sweep goes on to a point only when no child is running
\* and the Predictor of the point before, if it had one, has returned or
\* raised.
C19_Sequential ==
    [][/\ Cardinality(proc') =< 1
       /\ Child("exec") \in proc' \ proc =>
              /\ proc = {}
              /\ predictor.buildStatus # NoStatus
       /\ processed' # processed =>
              /\ proc = {}
              /\ predictor.stage = "None" \/ Terminal(predictor.stage)]_vars

C19_Witness ==
    /\ Len(processed) >= 2
    /\ proc = {Child("exec")}

\* The program has ended: the sweep returned or an exception left it.
Ended == pc \in {"done", "raised"}

\* C20: when every child process that is started exits, every run() that is
\* started ends (returns or raises) and the sweep ends; and while a child
\* process is running the run is in the stage that started it and the only
\* step there is is the child's exit: the runner waits, with no timeout.
C20_Terminates ==
    /\ (pc = "predictor" /\ predictor.stage = "Idle") ~> Terminal(predictor.stage)
    /\ <>Ended
    /\ [][proc # {} =>
             /\ predictor.stage \in {"Building", "Executing"}
             /\ proc' = {}
             /\ predictor'.stage # predictor.stage]_vars

C20_Witness ==
    /\ pc = "done"
    /\ Len(processed) >= 2
    /\ Terminal(predictor.stage)
    /\ predictor.execs = 1

====
